---- MODULE Spec2Model ----
(***************************************************************************)
(* Model of trafoAppB1.py: the temperature-correction lookup               *)
(* (obtener_valor_por_temperatura), the satellite map renderer             *)
(* (get_map_png_bytes) with its step-5 caller, and the five-step wizard    *)
(* kept in st.session_state.                                               *)
(*                                                                         *)
(* Units.  Temperatures are Python floats; a finite one is kept in tenths  *)
(* of a degree.  Correction factors are kept in thousandths (0.125 is      *)
(* 125).  Measured resistances are kept in hundredths, so a referred       *)
(* resistance (measured * factor) is in units of 10^-5.                    *)
(* Sequences are 1-based here and 0-based in Python.                       *)
(***************************************************************************)
EXTENDS Integers, Sequences, FiniteSets, TLC

VARIABLES
    \* obtener_valor_por_temperatura: the locals of the latest call
    temperaturas, valores_aceite, valores_seco, indice_cercano,
    lk_args, lk_ret, llamadas,
    \* matplotlib.pyplot's figures, shared by every call in the process
    pyplot,
    \* per session: the step-5 script run that draws the map (or a lookup
    \* call), its position and its locals
    hilo,
    \* st.session_state: the wizard's step, the collected data and the
    \* document template
    step, data, doc,
    \* the step-4 widgets' values before the script reads them
    entrada,
    \* the last run of the script: the step it ran, the button clicked,
    \* the exception that ended it, the error it showed, and the report it
    \* offered for download
    run, aviso, informe,
    \* convertir_a_mayusculas: the value given to the first call, the value
    \* the latest call returned, and the number of calls, each on the
    \* result of the one before
    arg_mayus, ret_mayus, veces_mayus

lookupVars == <<temperaturas, valores_aceite, valores_seco, indice_cercano,
                lk_args, lk_ret, llamadas>>

renderVars == <<pyplot, hilo>>

wizardVars == <<step, data, doc, entrada, run, aviso, informe>>

mayusVars == <<arg_mayus, ret_mayus, veces_mayus>>

vars == <<lookupVars, renderVars, wizardVars, mayusVars>>

----------------------------------------------------------------------------
(* Text.  A str is a sequence of one-character strings.                    *)

UpperChars == <<"A", "B", "C", "D", "E", "F", "G", "H", "I", "J", "K", "L", "M", "N", "O", "P", "Q", "R", "S", "T", "U", "V", "W", "X", "Y", "Z", "Á">>
LowerChars == <<"a", "b", "c", "d", "e", "f", "g", "h", "i", "j", "k", "l", "m", "n", "o", "p", "q", "r", "s", "t", "u", "v", "w", "x", "y", "z", "á">>

\* str.lower() on one character: an upper-case letter maps to its lower-case
\* letter, every other character is kept.
lower_char(c) ==
    IF \E i \in DOMAIN UpperChars : UpperChars[i] = c
    THEN LowerChars[CHOOSE i \in DOMAIN UpperChars : UpperChars[i] = c]
    ELSE c

lower_identidad(s) == s

\* str.lower()
lower(s) == [i \in DOMAIN s |-> lower_char(s[i])]

\* str.upper() on one character that maps to one character
upper_char(c) ==
    IF \E i \in DOMAIN LowerChars : LowerChars[i] = c
    THEN UpperChars[CHOOSE i \in DOMAIN LowerChars : LowerChars[i] = c]
    ELSE c

\* str.upper(): the eszett becomes two letters, so the length may grow
RECURSIVE upper(_)
upper(s) ==
    IF s = <<>> THEN <<>>
    ELSE (IF Head(s) = "ß" THEN <<"S", "S">> ELSE <<upper_char(Head(s))>>)
         \o upper(Tail(s))

ACEITE == <<"a", "c", "e", "i", "t", "e">>
SECO   == <<"s", "e", "c", "o">>


\* the options of the step-2 selectbox, and the default of .get() in step 4
Aceite == <<"A", "c", "e", "i", "t", "e">>
Seco   == <<"S", "e", "c", "o">>
NA     == <<"N", "A">>

----------------------------------------------------------------------------
(* Floats.  [k, v]: k = "fin" with v the value in tenths; k = "huge" with  *)
(* v = 1 for the float 1e19 and v = -1 for -1e19; k = "inf" with v = 1 or  *)
(* -1; k = "nan" with v = 0.                                               *)

Fin(v)  == [k |-> "fin", v |-> v]
Huge(s) == [k |-> "huge", v |-> s]
Inf(s)  == [k |-> "inf", v |-> s]
NaN     == [k |-> "nan", v |-> 0]

\* int - float.  For |i| <= 110 the difference i - 1e19 rounds to -1e19
\* (the spacing of floats near 1e19 is 2048), and i - inf is -inf.
FSubInt(i, t) ==
    CASE t.k = "fin"  -> Fin(10 * i - t.v)
      [] t.k = "huge" -> Huge(0 - t.v)
      [] t.k = "inf"  -> Inf(0 - t.v)
      [] t.k = "nan"  -> NaN

\* abs(float)
FAbs(x) ==
    CASE x.k = "fin" -> Fin(IF x.v < 0 THEN 0 - x.v ELSE x.v)
      [] x.k \in {"huge", "inf"} -> [k |-> x.k, v |-> 1]
      [] x.k = "nan" -> NaN

\* position of a float on the line: (class, value)
FClass(x) ==
    CASE x.k = "fin"  -> 0
      [] x.k = "huge" -> x.v
      [] x.k = "inf"  -> 2 * x.v
      [] x.k = "nan"  -> 0

\* float < float; every comparison with nan is False
FLess(a, b) ==
    /\ a.k # "nan"
    /\ b.k # "nan"
    /\ \/ FClass(a) < FClass(b)
       \/ a.k = "fin" /\ b.k = "fin" /\ a.v < b.v

----------------------------------------------------------------------------
(* float(str): optional sign, then inf / infinity / nan in any letter      *)
(* case, or digits with an optional fraction and an optional exponent.     *)
(* Blanks around the text are stripped.  The result is a float of the      *)
(* model, or FloatError for the ValueError.                                *)

DigitChars == <<"0", "1", "2", "3", "4", "5", "6", "7", "8", "9">>

IsDigit(c) == \E i \in DOMAIN DigitChars : DigitChars[i] = c
DigitVal(c) == (CHOOSE i \in DOMAIN DigitChars : DigitChars[i] = c) - 1

FloatError == [k |-> "ValueError", v |-> 0]

RECURSIVE Pow10(_)
Pow10(n) == IF n = 0 THEN 1 ELSE 10 * Pow10(n - 1)

\* the number written by a sequence of digits
RECURSIVE DigitsVal(_)
DigitsVal(s) ==
    IF s = <<>> THEN 0
    ELSE 10 * DigitsVal(SubSeq(s, 1, Len(s) - 1)) + DigitVal(s[Len(s)])

AllDigits(s) == \A i \in DOMAIN s : IsDigit(s[i])

\* str.strip() for blanks
RECURSIVE strip(_)
strip(s) ==
    IF s # <<>> /\ s[1] = " " THEN strip(Tail(s))
    ELSE IF s # <<>> /\ s[Len(s)] = " " THEN strip(SubSeq(s, 1, Len(s) - 1))
    ELSE s

\* first position of character c in s, or 0
Find(s, c) ==
    IF \E i \in DOMAIN s : s[i] = c
    THEN CHOOSE i \in DOMAIN s : s[i] = c /\ \A j \in 1..(i - 1) : s[j] # c
    ELSE 0

\* the float with mantissa digits m (an integer), f digits of fraction and
\* exponent e, in the units of the model.  1e19 and above is kept as the
\* float 1e19; values the tenths cannot hold are outside the model.
Scaled(sign, m, f, e) ==
    CASE m = 0 -> Fin(0)
      [] m # 0 /\ e - f + 1 >= 18 -> Huge(sign)
      [] m # 0 /\ e - f + 1 \in 0..5 /\ m < 10000 -> Fin(sign * m * Pow10(e - f + 1))
      [] m # 0 /\ e - f + 1 \in -5..-1 /\ m % Pow10(f - e - 1) = 0 ->
            Fin(sign * (m \div Pow10(f - e - 1)))

\* an unsigned decimal: digits [. digits] [e [+-] digits]
ParseDecimal(sign, s) ==
    LET epos == Find(lower(s), "e")
        mant == IF epos = 0 THEN s ELSE SubSeq(s, 1, epos - 1)
        expo == IF epos = 0 THEN <<>> ELSE SubSeq(s, epos + 1, Len(s))
        esign == IF expo # <<>> /\ expo[1] = "-" THEN -1 ELSE 1
        edig == IF expo # <<>> /\ expo[1] \in {"+", "-"} THEN Tail(expo) ELSE expo
        dot == Find(mant, ".")
        ent == IF dot = 0 THEN mant ELSE SubSeq(mant, 1, dot - 1)
        frac == IF dot = 0 THEN <<>> ELSE SubSeq(mant, dot + 1, Len(mant))
    IN  IF /\ AllDigits(ent) /\ AllDigits(frac) /\ ent \o frac # <<>>
           /\ (epos = 0 \/ (edig # <<>> /\ AllDigits(edig)))
        THEN Scaled(sign, DigitsVal(ent \o frac), Len(frac), esign * DigitsVal(edig))
        ELSE FloatError

float(texto) ==
    LET s == strip(texto)
        sign == IF s # <<>> /\ s[1] = "-" THEN -1 ELSE 1
        body == IF s # <<>> /\ s[1] \in {"+", "-"} THEN Tail(s) ELSE s
    IN  IF lower(body) \in {<<"i", "n", "f">>, <<"i", "n", "f", "i", "n", "i", "t", "y">>} THEN Inf(sign)
        ELSE IF lower(body) = <<"n", "a", "n">> THEN NaN
        ELSE ParseDecimal(sign, body)

----------------------------------------------------------------------------
(* obtener_valor_por_temperatura                                           *)

\* list(range(start, stop, step)) for a step salto > 0
range_mal(start, stop, salto) ==
    [i \in 1..((stop - 5 - start + salto - 1) \div salto) |-> start + (i - 1) * salto]

range(start, stop, salto) ==
    [i \in 1..((stop - start + salto - 1) \div salto) |-> start + (i - 1) * salto]

lista_temperaturas == range(-10, 115, 5)

lista_valores_aceite ==
    <<125, 180, 250, 360, 500, 750, 1000, 1400, 1980, 2800,
      3950, 5600, 7850, 11200, 15850, 22400, 31750, 44700, 63500,
      89789, 127000, 180000, 254000, 359150, 509000>>

lista_valores_seco ==
    <<250, 320, 400, 500, 630, 810, 1000, 1250, 1580, 2000,
      2500, 3150, 3980, 5000, 6300, 7900, 10000, 12600, 15800,
      20000, 25200, 31600, 40000, 50400, 63200>>

ValueError == [err |-> "ValueError", val |-> -1]
Devuelve(v) == [err |-> "none", val |-> v]

\* lines 98-103: the factor list of the kind, or <<>> when the kind is
\* neither "aceite" nor "seco" after lower() (the raise)
seleccionar_valores_sin_raise(va, vs, tipo_aislamiento) ==
    IF lower(tipo_aislamiento) = ACEITE THEN va ELSE vs

seleccionar_valores(va, vs, tipo_aislamiento) ==
    IF lower(tipo_aislamiento) = ACEITE THEN va
    ELSE IF lower(tipo_aislamiento) = SECO THEN vs
    ELSE <<>>

\* the key of min(): lambda i: abs(temperaturas[i] - temperatura_prueba)
clave_sin_abs(temps, i, temperatura_prueba) ==
    FSubInt(temps[i], temperatura_prueba)

clave(temps, i, temperatura_prueba) ==
    FAbs(FSubInt(temps[i], temperatura_prueba))

\* min(range(len(temps)), key=...): the scan keeps the first item and
\* replaces it only by an item whose key is strictly smaller
menor_o_igual(a, b) == FLess(a, b) \/ a = b

menor(a, b) == FLess(a, b)

RECURSIVE min_scan(_, _, _, _)
min_scan(temps, t, i, best) ==
    IF i > Len(temps) THEN best
    ELSE IF menor(clave(temps, i, t), clave(temps, best, t))
         THEN min_scan(temps, t, i + 1, i)
         ELSE min_scan(temps, t, i + 1, best)

indice_mas_cercano(temps, t) == min_scan(temps, t, 2, 1)

\* the whole function on given tables: the result record and the index (0
\* when the call raised before the scan)
buscar(temps, va, vs, t, tipo) ==
    LET valores == seleccionar_valores(va, vs, tipo) IN
    IF valores = <<>> THEN [ret |-> ValueError, idx |-> 0]
    ELSE LET i == indice_mas_cercano(temps, t) IN
         [ret |-> Devuelve(valores[i]), idx |-> i]

obtener_valor_por_temperatura(temperatura_prueba, tipo_aislamiento) ==
    buscar(lista_temperaturas, lista_valores_aceite, lista_valores_seco,
           temperatura_prueba, tipo_aislamiento).ret

----------------------------------------------------------------------------
(* Inputs of the lookup                                                    *)

\* how many 2.5-degree steps beyond each end of the table are tried
MaxFuera == 4

\* the window of temperatures tried in every tenth: 0.0 .. VentanaFina/10
VentanaFina == 30

GridTemps == {Fin(25 * j) : j \in (-4 - MaxFuera)..(44 + MaxFuera)}
FineTemps == {Fin(v) : v \in 0..VentanaFina}
SpecialTemps == {Huge(1), Huge(-1), Inf(1), Inf(-1), NaN}
Temps == GridTemps \cup FineTemps \cup SpecialTemps

\* every spelling of a lower-case word in upper and lower case
CaseVariants(w) ==
    {[i \in DOMAIN w |-> IF i \in m THEN upper_char(w[i]) ELSE w[i]] :
        m \in SUBSET DOMAIN w}

AGUA == <<"a", "g", "u", "a">>

Kinds ==
    CaseVariants(ACEITE) \cup CaseVariants(SECO) \cup CaseVariants(AGUA)
    \cup CaseVariants(lower(NA))
    \cup {<<>>, <<"s", "e", "c">>, <<"s", "e", "c", "o", "s">>,
          <<"a", "c", "e", "i", "t", "e", "s">>, <<"o", "c", "e", "s">>}

----------------------------------------------------------------------------
(* get_map_png_bytes and matplotlib.pyplot.  pyplot keeps, for the whole   *)
(* process, the open figures in the order of their last activation; the    *)
(* last one is the current figure.  py = [figs, cont]: the open figure     *)
(* numbers and what each open figure shows.                                *)

PyVacio == [figs |-> <<>>, cont |-> <<>>]

\* what a figure shows: the point it was made for (SinPunto for a figure
\* made by gcf() itself), the layers drawn on it, and whether tight_layout ran
FigNueva(pt) == [punto |-> pt, capas |-> {}, ajustada |-> FALSE]

MaxNum(figs) == IF figs = <<>> THEN 0
                ELSE CHOOSE n \in {figs[i] : i \in DOMAIN figs} :
                        \A i \in DOMAIN figs : figs[i] <= n

\* plt.figure(): a new figure numbered max + 1, made the current one
figure(py, pt) ==
    LET num == MaxNum(py.figs) + 1 IN
    [figs |-> Append(py.figs, num),
     cont |-> [n \in DOMAIN py.cont \cup {num} |->
                  IF n = num THEN FigNueva(pt) ELSE py.cont[n]]]

\* plt.subplots(): the number of the figure it made is the last of figs
subplots(py, pt) == figure(py, pt)

\* plt.gcf(): the current figure; with no open figure it makes one
SinPunto == [lon |-> NaN, lat |-> NaN]
gcf_py(py) == IF py.figs = <<>> THEN figure(py, SinPunto) ELSE py
gcf(py) == LET q == gcf_py(py) IN q.figs[Len(q.figs)]

\* drawing on the figure of one's own axes (add_basemap, gdf.plot); a
\* figure already closed is still drawn on, but is no longer in py
dibujar(py, fig, capa) ==
    IF fig \in DOMAIN py.cont
    THEN [py EXCEPT !.cont[fig].capas = @ \cup {capa}]
    ELSE py

\* plt.tight_layout(pad=0): on the current figure
tight_layout(py) ==
    LET q == gcf_py(py) IN [q EXCEPT !.cont[gcf(py)].ajustada = TRUE]

\* plt.savefig(buf, format="png", ...): the PNG of the current figure
Png(c) == [punto |-> c.punto, capas |-> c.capas, ajustada |-> c.ajustada]
SinBytes == [punto |-> SinPunto, capas |-> {"sin bytes"}, ajustada |-> FALSE]
savefig_bytes(py) == Png(gcf_py(py).cont[gcf(py)])
savefig_py(py) == gcf_py(py)

\* plt.close(fig): the figure leaves pyplot; closing one already closed
\* does nothing
close(py, fig) ==
    [figs |-> SelectSeq(py.figs, LAMBDA n : n # fig),
     cont |-> [n \in DOMAIN py.cont \ {fig} |-> py.cont[n]]]

\* the image of a call that runs alone and does not fail
ImagenSolo(pt) == [punto |-> pt, capas |-> {"basemap", "marker"}, ajustada |-> TRUE]

\* a coordinate that Web Mercator maps to a finite point: line 22
EnRango(lon, lat) ==
    /\ lon.k = "fin" /\ lat.k = "fin"
    /\ -1800 <= lon.v /\ lon.v <= 1800
    /\ -900 < lat.v /\ lat.v < 900

\* what to_crs can do with a point: a finite point, a point with infinite
\* coordinates (set_xlim then raises), or an error of its own
Proyecciones(lon, lat) ==
    IF EnRango(lon, lat) THEN {"ok", "ProjError"} ELSE {"inf", "ProjError"}

\* what add_basemap can do: the tiles, or an error of the network or of
\* the tile provider
Redes == {"ok", "ConnectionError", "HTTPError"}

\* where control goes when a line of get_map_png_bytes raises: the
\* function has no handler, the caller's except clause is next (line 357)
al_fallar_reintenta == "basemap"
al_fallar == "except"

\* str.replace(',', '.')
replace_coma(s) == [i \in DOMAIN s |-> IF s[i] = "," THEN "." ELSE s[i]]

Punto(lon, lat) == [lon |-> lon, lat |-> lat]

\* get_map_png_bytes run from its first line to its last with no other
\* thread in between (lines 15-47), given what to_crs and add_basemap do:
\* the figures left in pyplot, the bytes returned or the exception raised,
\* and the number of fetches made
get_map_png_bytes(py, lon, lat, proy, red) ==
    IF proy = "ProjError"
    THEN [py |-> py, bytes |-> SinBytes, exc |-> "ProjError", intentos |-> 0]
    ELSE
    LET p1 == subplots(py, Punto(lon, lat))
        fig == p1.figs[Len(p1.figs)]
    IN  IF proy = "inf"
        THEN [py |-> p1, bytes |-> SinBytes, exc |-> "ValueError", intentos |-> 0]
        ELSE IF red # "ok"
        THEN [py |-> p1, bytes |-> SinBytes, exc |-> red, intentos |-> 1]
        ELSE
        LET p2 == dibujar(dibujar(p1, fig, "basemap"), fig, "marker")
            p3 == tight_layout(p2)
        IN  [py |-> close(savefig_py(p3), fig), bytes |-> savefig_bytes(p3),
             exc |-> "none", intentos |-> 1]

\* st.error(f"{texto} {e}"): the text shown and the exception it quotes
Aviso(texto, causa) == [texto |-> texto, causa |-> causa]
SinAviso == Aviso("", "none")

----------------------------------------------------------------------------
(* The wizard: st.session_state.step, .data and .doc, and the script that  *)
(* runs once for every interaction of the user.                            *)

\* values kept in st.session_state.data: [t, s, n] with t the type, s the
\* text of a str and n the number of an int, a float or a date (yyyymmdd).
\* A float is a measured resistance in hundredths or a referred
\* resistance in units of 10^-5.
None    == [t |-> "none", s |-> <<>>, n |-> 0]
Str(s)  == [t |-> "str", s |-> s, n |-> 0]
Ent(n)  == [t |-> "int", s |-> <<>>, n |-> n]
Flo(n)  == [t |-> "float", s |-> <<>>, n |-> n]
Date(n) == [t |-> "date", s |-> <<>>, n |-> n]

\* data[k] = v for every key k of the record r
Asignar(d, r) ==
    [k \in DOMAIN d \cup DOMAIN r |-> IF k \in DOMAIN r THEN r[k] ELSE d[k]]

\* data.get(k, defecto)
Get(d, k, defecto) == IF k \in DOMAIN d THEN d[k] ELSE defecto

\* date.strftime("%Y-%m-%d")
Dig2(n) == <<DigitChars[(n \div 10) + 1], DigitChars[(n % 10) + 1]>>
strftime(f) ==
    Str(Dig2(f.n \div 1000000) \o Dig2((f.n \div 10000) % 100) \o <<"-">>
        \o Dig2((f.n \div 100) % 100) \o <<"-">> \o Dig2(f.n % 100))

\* next_step, lines 119-125: the values that stop it
vacio_nunca(v) == FALSE
vacio(v) == v = None \/ v = Str(<<>>)
missing(d) == {k \in DOMAIN d : vacio(d[k])}

PorFavorCompleta == "Por favor completa todos los campos antes de continuar."

next_step(paso, d) ==
    IF missing(d) # {}
    THEN [step |-> paso,
          aviso |-> Aviso(PorFavorCompleta, "none")]
    ELSE [step |-> paso + 1, aviso |-> SinAviso]

\* prev_step, lines 127-130
prev_step(paso) == IF paso > 1 THEN paso - 1 ELSE paso

Trifasico  == <<"T", "r", "i", "f", "á", "s", "i", "c", "o">>
Monofasico == <<"M", "o", "n", "o", "f", "á", "s", "i", "c", "o">>
Urbano == <<"U", "r", "b", "a", "n", "o">>
Rural  == <<"R", "u", "r", "a", "l">>
Guion  == <<"-">>
Cumple   == <<"C", "u", "m", "p", "l", "e">>
NoCumple == <<"N", "o", " ", "C", "u", "m", "p", "l", "e">>

\* step 1, lines 136-145; w holds the widgets' values by widget key
paso1(d, w) ==
    Asignar(d,
        [nombreProyecto |-> Str(w.nombreProyecto),
         nombreCiudadoMunicipio |-> Str(w.ciudad),
         nombreDepartamento |-> Str(w.departamento),
         tipoCoordenada |-> Str(w.tipo_coordenada),
         nombreCompleto |-> Str(w.nombre),
         nroConteoTarjeta |-> Str(w.conte_tarjeta),
         nombreCargo |-> Str(w.cargo),
         fechaCreacionSinFormato |-> w.fecha_creacion,
         fechaCreacion |-> strftime(w.fecha_creacion),
         direccion |-> Str(w.direccion)])

\* step 2, lines 155-164
paso2(d, w) ==
    Asignar(d,
        [nroTransformador |-> Str(w.nro_transformador),
         capacidadTransformador |-> Str(w.capacidad_transformador),
         tipoTransformador |-> Str(w.tipotrafo),
         tipoAislamiento |-> Str(w.tipoaislamiento),
         voltajePrimario |-> Str(w.voltprimario),
         voltajeSecundario |-> Str(w.voltsecundario),
         latitud |-> Str(w.latitud),
         longitud |-> Str(w.longitud),
         fechaCalibracionSinFormato |-> w.fecha_calibracion,
         fechaCalibracion |-> strftime(w.fecha_calibracion)])

\* lines 171-178
template_path_fija(d) == "templates/templateTRAFO3FS.docx"

template_path(d) ==
    IF d["tipoTransformador"] = Str(Trifasico)
    THEN "templates/templateTRAFO3FS.docx"
    ELSE "templates/templateTRAFO1FS.docx"

\* step 3, lines 191-201
paso3(d, w) ==
    Asignar(d,
        [carTrafo_Marca |-> Str(w.cartrafomarca),
         carTrafo_Serie |-> Str(w.cartrafoserie),
         carTrafo_Tipo |-> Str(w.cartrafotipo),
         carTrafo_FechaFabricacionSinFormato |-> w.cartrafofechafabrisf,
         carTrafo_FechaFabricacion |-> strftime(w.cartrafofechafabrisf),
         carTrafo_Frecuencia |-> Str(w.cartrafofrec),
         carTrafo_NroFases |->
             IF d["tipoTransformador"] = Str(Trifasico) THEN Ent(3) ELSE Ent(1),
         carTrafo_Conexion |-> Str(w.cartrafoconexion),
         carTrafo_MedioAislamiento |-> Str(w.cartrafomedioaisl),
         carTrafo_FechaMediciones |-> d["fechaCreacion"],
         temperaturaPrueba |-> Str(w.temperaturaprueba)])

\* float(data.get('temperaturaPrueba', 0)): the text of step 3, parsed
temperatura_de(d) ==
    IF "temperaturaPrueba" \in DOMAIN d
    THEN float(d["temperaturaPrueba"].s) ELSE Fin(0)

\* data.get('tipoAislamiento', 'NA')
aislamiento_de(d) == Get(d, "tipoAislamiento", Str(NA)).s

\* resEsp_*, lines 222-224 and 241-243: the thresholds by kind
resEsp_alta(d) == IF d["tipoAislamiento"] = Str(Aceite) THEN 5 ELSE 25
resEsp_baja(d) == IF d["tipoAislamiento"] = Str(Aceite) THEN 1 ELSE 5

\* 'Cumple' if referred >= threshold else 'No Cumple'; the referred
\* resistance is in units of 10^-5
resultado_estricto(referida, esperada) ==
    IF referida > esperada * 100000 THEN Str(Cumple) ELSE Str(NoCumple)

resultado(referida, esperada) ==
    IF referida >= esperada * 100000 THEN Str(Cumple) ELSE Str(NoCumple)

\* measured * factor: hundredths times thousandths
referida(medida, factor) == medida * factor

\* step 4, lines 213-249.  The result is the data and the exception that
\* ended the run, if any: float() or the lookup raise at the first line
\* that uses them (216, or 237 for one phase), after the assignments of
\* the lines before it.  The three lookups of a run have the same
\* arguments, hence the same result.
paso4(d, w) ==
    LET t == temperatura_de(d)
        f == IF t = FloatError THEN ValueError
             ELSE obtener_valor_por_temperatura(t, aislamiento_de(d))
        tres == d["carTrafo_NroFases"] = Ent(3)
        antes == IF tres
                 THEN Asignar(d, [resMedida_AVST |-> Flo(w.res_medida_avst)])
                 ELSE Asignar(d, [resMedida_AVST |-> Str(Guion),
                                  resReferida_AVST |-> Str(Guion),
                                  resMedida_AVSB |-> Flo(w.res_medida_avsb)])
        ref_avst == referida(w.res_medida_avst, f.val)
        ref_avsb == referida(w.res_medida_avsb, f.val)
        ref_bvst == referida(w.res_medida_bvst, f.val)
    IN  IF f = ValueError THEN [data |-> antes, exc |-> "ValueError"]
        ELSE [exc |-> "none", data |->
            Asignar(antes,
                [resMedida_AVST |-> antes["resMedida_AVST"],
                 resReferida_AVST |-> IF tres THEN Flo(ref_avst) ELSE Str(Guion),
                 resMedida_AVSB |-> Flo(w.res_medida_avsb),
                 resReferida_AVSB |-> Flo(ref_avsb),
                 resMedida_BVST |-> Flo(w.res_medida_bvst),
                 resReferida_BVST |-> Flo(ref_bvst),
                 resEsp_AVST |-> Ent(resEsp_alta(d)),
                 resEsp_AVSB |-> Ent(resEsp_alta(d)),
                 resEsp_BVST |-> Ent(resEsp_baja(d)),
                 resultado_AVST |-> IF tres THEN resultado(ref_avst, resEsp_alta(d))
                                    ELSE Str(Cumple),
                 resultado_AVSB |-> resultado(ref_avsb, resEsp_alta(d)),
                 resultado_BVST |-> resultado(ref_bvst, resEsp_baja(d)),
                 comentariosPrueba |-> Str(w.comentarios_prueba)])]

\* nested values: a list and a tuple hold their items in order, a dict
\* holds its (key, value) pairs in insertion order
Lista(items) == [t |-> "list", items |-> items]
Tupla(items) == [t |-> "tuple", items |-> items]
Dic(items)   == [t |-> "dict", items |-> items]

\* tuple(...) of line 59
reconstruir_como_lista(items) == Lista(items)

reconstruir_tupla(items) == Tupla(items)

\* convertir_a_mayusculas, lines 51-61
RECURSIVE convertir_a_mayusculas(_)
convertir_a_mayusculas(v) ==
    CASE v.t = "str" -> Str(upper(v.s))
      [] v.t = "dict" ->
            Dic([i \in DOMAIN v.items |->
                    <<v.items[i][1], convertir_a_mayusculas(v.items[i][2])>>])
      [] v.t = "list" ->
            Lista([i \in DOMAIN v.items |-> convertir_a_mayusculas(v.items[i])])
      [] v.t = "tuple" ->
            reconstruir_tupla(
                [i \in DOMAIN v.items |-> convertir_a_mayusculas(v.items[i])])
      [] OTHER -> v

\* convertir_a_mayusculas(st.session_state.data.copy()), lines 261-263:
\* the session's dict, held here by key
datos_en_mayusculas(d) == [k \in DOMAIN d |-> convertir_a_mayusculas(d[k])]

----------------------------------------------------------------------------
(* Specification of the lookup alone.  The first call is made with any     *)
(* temperature and kind; the calls after it with one of Rellamadas.        *)

\* calls made in one behaviour
MaxLlamadas == 2

Rellamadas ==
    {[t |-> Fin(200), tipo |-> Seco], [t |-> Fin(-150), tipo |-> Aceite],
     [t |-> Huge(1), tipo |-> Aceite], [t |-> Fin(25), tipo |-> NA]}

\* no call made yet, the first one to be made with lk_args
LookupSinLlamar ==
    /\ temperaturas = lista_temperaturas
    /\ valores_aceite = lista_valores_aceite
    /\ valores_seco = lista_valores_seco
    /\ indice_cercano = 0
    /\ lk_ret = ValueError
    /\ llamadas = 0

InitLookup ==
    /\ LookupSinLlamar
    /\ lk_args \in [t : Temps, tipo : Kinds]

\* the lookup variables in the specifications that call the lookup as a
\* function
LookupReposo ==
    /\ LookupSinLlamar
    /\ lk_args = [t |-> Fin(0), tipo |-> <<>>]

----------------------------------------------------------------------------
(* Specification of concurrent calls: each session runs, in its own        *)
(* thread, the rural-map branch of step 5 (lines 343-360, with             *)
(* get_map_png_bytes inside) or a call of the lookup.  One pyplot call is  *)
(* one step.                                                               *)

Sesiones == {1, 2}

\* script runs of one session
MaxCorridas == 1

Coordenadas ==
    {[latitud |-> <<"4", ",", "6">>, longitud |-> <<"-", "7", "4", ",", "1">>],
     [latitud |-> <<"1", "0", ".", "5">>, longitud |-> <<"-", "7", "5">>],
     [latitud |-> <<"2", "0", "0">>, longitud |-> <<"-", "7", "4", ",", "1">>],
     [latitud |-> <<"4", ",", "6">>, longitud |-> <<"o", "e", "s", "t", "e">>],
     [latitud |-> <<>>, longitud |-> <<"-", "7", "5">>]}

HiloInicial ==
    [pc |-> "idle", op |-> "none", lon |-> NaN, lat |-> NaN,
     t |-> NaN, tipo |-> <<>>, proy |-> "none", fig |-> 0, guardada |-> 0,
     intentos |-> 0, bytes |-> SinBytes, valor |-> ValueError,
     exc |-> "none", llamada |-> FALSE, aviso |-> SinAviso, imagen |-> FALSE,
     corridas |-> 0]

InitRender ==
    /\ pyplot = PyVacio
    /\ hilo = [s \in Sesiones |-> HiloInicial]

----------------------------------------------------------------------------
(* The wizard's first state and the values the user can enter              *)

SinInforme == [plantilla |-> "", mapa |-> FALSE, hecho |-> FALSE]
SinCorrida == [paso |-> 0, click |-> "", exc |-> "none"]
SinEntrada == [res_medida_avst |-> 0, res_medida_avsb |-> 0,
               res_medida_bvst |-> 0, comentarios_prueba |-> <<>>]

\* lines 112-114
InitWizard ==
    /\ step = 1
    /\ data = <<>>
    /\ doc = ""
    /\ entrada = SinEntrada
    /\ run = SinCorrida
    /\ aviso = SinAviso
    /\ informe = SinInforme

Hoy == Date(20261105)
Relleno == <<"x">>

\* a text widget is filled in, except the one named by blanco
Texto(campo, blanco) == IF campo = blanco THEN <<>> ELSE Relleno

Entrada1(blanco, coordenada) ==
    [nombreProyecto |-> Texto("nombreProyecto", blanco),
     ciudad |-> Texto("ciudad", blanco),
     departamento |-> Texto("departamento", blanco),
     tipo_coordenada |-> coordenada,
     nombre |-> Texto("nombre", blanco),
     conte_tarjeta |-> Texto("conte_tarjeta", blanco),
     cargo |-> Texto("cargo", blanco),
     fecha_creacion |-> Hoy,
     direccion |-> Texto("direccion", blanco)]

Entradas1 ==
    {Entrada1("", Urbano), Entrada1("", Rural), Entrada1("direccion", Urbano)}

Entrada2(blanco, trafo, aislamiento, latitud) ==
    [nro_transformador |-> Texto("nro_transformador", blanco),
     capacidad_transformador |-> Texto("capacidad_transformador", blanco),
     tipotrafo |-> trafo,
     tipoaislamiento |-> aislamiento,
     voltprimario |-> Texto("voltprimario", blanco),
     voltsecundario |-> Texto("voltsecundario", blanco),
     latitud |-> latitud,
     longitud |-> IF blanco = "longitud" THEN <<>> ELSE <<"-", "7", "4", ",", "1">>,
     fecha_calibracion |-> Hoy]

Entradas2 ==
    {Entrada2(b, tr, ai, <<"4", ",", "6">>) :
        b \in {"", "nro_transformador"}, tr \in {Trifasico, Monofasico},
        ai \in {Aceite, Seco}}

Entrada3(blanco, temperatura) ==
    [cartrafomarca |-> Texto("cartrafomarca", blanco),
     cartrafoserie |-> Texto("cartrafoserie", blanco),
     cartrafotipo |-> Texto("cartrafotipo", blanco),
     cartrafofechafabrisf |-> Hoy,
     cartrafofrec |-> Texto("cartrafofrec", blanco),
     cartrafoconexion |-> Texto("cartrafoconexion", blanco),
     cartrafomedioaisl |-> Texto("cartrafomedioaisl", blanco),
     temperaturaprueba |-> temperatura]

Entradas3 ==
    {Entrada3("", <<"2", "0">>), Entrada3("cartrafomarca", <<"2", "0">>), Entrada3("", <<"a", "b", "c">>)}

Entrada4(avst, avsb, bvst, comentarios) ==
    [res_medida_avst |-> avst, res_medida_avsb |-> avsb,
     res_medida_bvst |-> bvst, comentarios_prueba |-> comentarios]

Entradas4 ==
    {Entrada4(500, 500, 500, Relleno), Entrada4(499, 2500, 0, Relleno),
     Entrada4(500, 500, 500, <<>>)}

\* DocxTemplate(template_path): the object, or the error of a missing file
DocxResultados == {"ok", "FileNotFoundError", "PackageNotFoundError"}

\* figures a session may leave open in pyplot
MaxFiguras == 2

----------------------------------------------------------------------------
(* The values given to convertir_a_mayusculas                              *)

\* successive calls, each on the result of the one before
MaxVeces == 2

\* leaves: text in mixed case, text whose upper case is longer, empty
\* text, and values that are not text
Hojas == {Str(<<"a", "B">>), Str(<<"ß", "á">>), Str(<<>>), Ent(7), None, Hoy}

\* the sequences of at most n items of S
Secuencias(S, n) == UNION {[1..k -> S] : k \in 0..n}

\* the (key, value) pairs of the dicts with at most two of the keys
\* "nombre" and "Ab", and values in S
Pares(S) ==
    {p \in Secuencias({"nombre", "Ab"} \X S, 2) :
        \A i, j \in DOMAIN p : i # j => p[i][1] # p[j][1]}

Contenedores(S) ==
    {Lista(x) : x \in Secuencias(S, 2)} \cup
    {Tupla(x) : x \in Secuencias(S, 2)} \cup
    {Dic(p) : p \in Pares(S)}

\* leaves, containers of leaves, containers of leaves and containers, and
\* one value four levels deep
Valores ==
    Hojas \cup Contenedores(Hojas) \cup
    Contenedores({Str(<<"a", "B">>), Ent(7), Lista(<<Str(<<"a", "B">>), Ent(7)>>),
                  Tupla(<<Str(<<"ß", "á">>), None>>),
                  Dic(<< <<"nombre", Str(<<"a", "B">>)>> >>)}) \cup
    {Dic(<< <<"nombre", Lista(<<Tupla(<<Str(<<"a", "B">>),
                                        Dic(<< <<"Ab", Str(<<"ß", "á">>)>> >>)>>)>>)>>,
            <<"Ab", Hoy>> >>)}

InitMayusculas ==
    /\ arg_mayus \in Valores
    /\ ret_mayus = None
    /\ veces_mayus = 0

\* no call of convertir_a_mayusculas
MayusReposo ==
    /\ arg_mayus = None
    /\ ret_mayus = None
    /\ veces_mayus = 0

----------------------------------------------------------------------------
(* The steps of a session's thread                                         *)

Libre(s) == hilo[s].pc \in {"idle", "fin"} /\ hilo[s].corridas < MaxCorridas

Nueva(s) == [HiloInicial EXCEPT !.corridas = hilo[s].corridas + 1]

\* a line of get_map_png_bytes raises: the exception reaches the caller
Falla(h, causa) == [h EXCEPT !.exc = causa, !.pc = al_fallar]

\* lines 343-352: the coordinates are read from the session data, parsed,
\* and get_map_png_bytes is called
IniciarMapa(s) ==
    /\ Libre(s)
    /\ \E c \in Coordenadas :
        LET lat == float(replace_coma(c.latitud))
            lon == float(replace_coma(c.longitud))
            h == [Nueva(s) EXCEPT !.op = "render"]
        IN  hilo' = [hilo EXCEPT ![s] =
                IF c.latitud = <<>> \/ c.longitud = <<>>
                THEN [h EXCEPT !.aviso = Aviso("Faltan coordenadas para el mapa.", "none"),
                               !.pc = "fin"]
                ELSE IF lat = FloatError \/ lon = FloatError
                THEN [h EXCEPT !.exc = "ValueError", !.pc = "except"]
                ELSE [h EXCEPT !.lat = lat, !.lon = lon, !.llamada = TRUE,
                               !.pc = "to_crs"]]
    /\ UNCHANGED <<pyplot, lookupVars, wizardVars, mayusVars>>

\* lines 22-26
Reproyectar(s) ==
    /\ hilo[s].pc = "to_crs"
    /\ \E r \in Proyecciones(hilo[s].lon, hilo[s].lat) :
        hilo' = [hilo EXCEPT ![s] =
            IF r = "ProjError" THEN Falla(@, r)
            ELSE [@ EXCEPT !.proy = r, !.pc = "subplots"]]
    /\ UNCHANGED <<pyplot, lookupVars, wizardVars, mayusVars>>

\* line 29
Subplots(s) ==
    /\ hilo[s].pc = "subplots"
    /\ pyplot' = subplots(pyplot, Punto(hilo[s].lon, hilo[s].lat))
    /\ hilo' = [hilo EXCEPT ![s].fig = pyplot'.figs[Len(pyplot'.figs)],
                            ![s].pc = "limites"]
    /\ UNCHANGED <<lookupVars, wizardVars, mayusVars>>

\* lines 30-31: set_xlim and set_ylim raise on an infinite limit
Limites(s) ==
    /\ hilo[s].pc = "limites"
    /\ hilo' = [hilo EXCEPT ![s] =
            IF @.proy = "inf" THEN Falla(@, "ValueError")
            ELSE [@ EXCEPT !.pc = "basemap"]]
    /\ UNCHANGED <<pyplot, lookupVars, wizardVars, mayusVars>>

\* line 34: one fetch of the tiles
Basemap(s) ==
    /\ hilo[s].pc = "basemap"
    /\ \E r \in Redes :
        /\ hilo' = [hilo EXCEPT ![s] =
                LET h == [@ EXCEPT !.intentos = @ + 1] IN
                IF r = "ok" THEN [h EXCEPT !.pc = "plot"] ELSE Falla(h, r)]
        /\ pyplot' = IF r = "ok" THEN dibujar(pyplot, hilo[s].fig, "basemap")
                     ELSE pyplot
    /\ UNCHANGED <<lookupVars, wizardVars, mayusVars>>

\* lines 37-39
Plot(s) ==
    /\ hilo[s].pc = "plot"
    /\ pyplot' = dibujar(pyplot, hilo[s].fig, "marker")
    /\ hilo' = [hilo EXCEPT ![s].pc = "layout"]
    /\ UNCHANGED <<lookupVars, wizardVars, mayusVars>>

\* line 40
Layout(s) ==
    /\ hilo[s].pc = "layout"
    /\ pyplot' = tight_layout(pyplot)
    /\ hilo' = [hilo EXCEPT ![s].pc = "savefig"]
    /\ UNCHANGED <<lookupVars, wizardVars, mayusVars>>

\* lines 43-44
Savefig(s) ==
    /\ hilo[s].pc = "savefig"
    /\ pyplot' = savefig_py(pyplot)
    /\ hilo' = [hilo EXCEPT ![s].bytes = savefig_bytes(pyplot),
                            ![s].guardada = gcf(pyplot),
                            ![s].pc = "close"]
    /\ UNCHANGED <<lookupVars, wizardVars, mayusVars>>

\* line 45
Close(s) ==
    /\ hilo[s].pc = "close"
    /\ pyplot' = close(pyplot, hilo[s].fig)
    /\ hilo' = [hilo EXCEPT ![s].pc = "return"]
    /\ UNCHANGED <<lookupVars, wizardVars, mayusVars>>

\* lines 46-47 and 354-356: the bytes go into the report's context
Devolver(s) ==
    /\ hilo[s].pc = "return"
    /\ hilo' = [hilo EXCEPT ![s].imagen = TRUE, ![s].pc = "fin"]
    /\ UNCHANGED <<pyplot, lookupVars, wizardVars, mayusVars>>

\* lines 357-358: except Exception as e: st.error(...)
Except(s) ==
    /\ hilo[s].pc = "except"
    /\ hilo' = [hilo EXCEPT ![s].aviso =
                    Aviso("Coordenadas invalidas para el mapa.", hilo[s].exc),
                            ![s].pc = "fin"]
    /\ UNCHANGED <<pyplot, lookupVars, wizardVars, mayusVars>>

\* a call of the lookup in the session's thread: lines 64-95 ...
IniciarLookup(s) ==
    /\ Libre(s)
    /\ \E a \in Rellamadas :
        hilo' = [hilo EXCEPT ![s] =
            [Nueva(s) EXCEPT !.op = "lookup", !.t = a.t, !.tipo = a.tipo,
                             !.pc = "lookup"]]
    /\ UNCHANGED <<pyplot, lookupVars, wizardVars, mayusVars>>

\* ... and lines 97-108
TerminarLookup(s) ==
    /\ hilo[s].pc = "lookup"
    /\ hilo' = [hilo EXCEPT ![s].valor =
                    obtener_valor_por_temperatura(hilo[s].t, hilo[s].tipo),
                            ![s].pc = "fin"]
    /\ UNCHANGED <<pyplot, lookupVars, wizardVars, mayusVars>>

NextRender ==
    \/ \E s \in Sesiones : IniciarMapa(s)
    \/ \E s \in Sesiones : Reproyectar(s)
    \/ \E s \in Sesiones : Subplots(s)
    \/ \E s \in Sesiones : Limites(s)
    \/ \E s \in Sesiones : Basemap(s)
    \/ \E s \in Sesiones : Plot(s)
    \/ \E s \in Sesiones : Layout(s)
    \/ \E s \in Sesiones : Savefig(s)
    \/ \E s \in Sesiones : Close(s)
    \/ \E s \in Sesiones : Devolver(s)
    \/ \E s \in Sesiones : Except(s)
    \/ \E s \in Sesiones : IniciarLookup(s)
    \/ \E s \in Sesiones : TerminarLookup(s)

InitSpecRender == InitRender /\ LookupReposo /\ InitWizard /\ MayusReposo

SpecRender == InitSpecRender /\ [][NextRender]_vars

----------------------------------------------------------------------------
(* The wizard's script runs: one run of the script is one step             *)

Corrida(paso, click, exc) == [paso |-> paso, click |-> click, exc |-> exc]
Excepcion(causa) == Aviso("excepcion no capturada", causa)

\* the buttons of steps 3 and 4 (lines 203-207, 251-255): the step and the
\* error shown after the click
botones(paso, d, click) ==
    CASE click = "Anterior"  -> [step |-> prev_step(paso), aviso |-> SinAviso]
      [] click = "Siguiente" -> next_step(paso, d)
      [] click = ""          -> [step |-> paso, aviso |-> SinAviso]

\* lines 133-149
Paso1 ==
    /\ step = 1
    /\ \E w \in Entradas1, click \in {"", "Siguiente"} :
        LET r == botones(1, data', click) IN
        /\ data' = paso1(data, w)
        /\ step' = r.step
        /\ aviso' = r.aviso
        /\ run' = Corrida(1, click, "none")
    /\ UNCHANGED <<doc, entrada, informe, lookupVars, renderVars, mayusVars>>

\* lines 152-185
Paso2 ==
    /\ step = 2
    /\ \E w \in Entradas2, click \in {"", "Anterior", "Siguiente"},
          o \in DocxResultados :
        LET r == botones(2, data', click) IN
        /\ data' = paso2(data, w)
        /\ \/ /\ click # "Siguiente"
              /\ o = "ok"
              /\ step' = r.step /\ aviso' = r.aviso /\ doc' = doc
              /\ run' = Corrida(2, click, "none")
           \/ /\ click = "Siguiente"
              /\ o = "ok"
              /\ doc' = template_path(data')
              /\ step' = r.step /\ aviso' = r.aviso
              /\ run' = Corrida(2, click, "none")
           \/ /\ click = "Siguiente"
              /\ o = "FileNotFoundError"
              /\ aviso' = Aviso("No se encontro la plantilla", template_path(data'))
              /\ run' = Corrida(2, click, "none")
              /\ UNCHANGED <<step, doc>>
           \/ /\ click = "Siguiente"
              /\ o = "PackageNotFoundError"
              /\ aviso' = Excepcion(o)
              /\ run' = Corrida(2, click, o)
              /\ UNCHANGED <<step, doc>>
    /\ UNCHANGED <<entrada, informe, lookupVars, renderVars, mayusVars>>

\* lines 188-207
Paso3 ==
    /\ step = 3
    /\ \E w \in Entradas3, click \in {"", "Anterior", "Siguiente"} :
        LET r == botones(3, data', click) IN
        /\ data' = paso3(data, w)
        /\ step' = r.step
        /\ aviso' = r.aviso
        /\ run' = Corrida(3, click, "none")
    /\ UNCHANGED <<doc, entrada, informe, lookupVars, renderVars, mayusVars>>

\* lines 210-255 with the widgets' values w: an exception ends the run
\* before the buttons are drawn
Correr4(w, click) ==
    LET r == paso4(data, w)
        b == botones(4, data', click)
    IN  /\ data' = r.data
        /\ IF r.exc # "none"
           THEN /\ step' = step
                /\ aviso' = Excepcion(r.exc)
                /\ run' = Corrida(4, "", r.exc)
           ELSE /\ step' = b.step
                /\ aviso' = b.aviso
                /\ run' = Corrida(4, click, "none")

Paso4 ==
    /\ step = 4
    /\ \E w \in Entradas4, click \in {"", "Anterior", "Siguiente"} :
        Correr4(w, click)
    /\ UNCHANGED <<doc, entrada, informe, lookupVars, renderVars, mayusVars>>

\* the static map of the "Urbano" mode (lines 325-339): the image, or the
\* exception of float() or of StaticMap.render()
Estaticos == {"ok", "RuntimeError"}

\* lines 258-467.  The uploaded pictures only reach the report.
Paso5 ==
    /\ step = 5
    /\ \E generar \in BOOLEAN, proy \in {"ok", "inf", "ProjError"},
          red \in Redes, estatico \in Estaticos :
        LET datos == datos_en_mayusculas(data)
            urbano == data["tipoCoordenada"] = Str(Urbano)
            faltan == data["latitud"].s = <<>> \/ data["longitud"].s = <<>>
            origen == IF urbano THEN datos ELSE data
            lat == float(replace_coma(origen["latitud"].s))
            lon == float(replace_coma(origen["longitud"].s))
            mal == lat = FloatError \/ lon = FloatError
            m == get_map_png_bytes(pyplot, lon, lat, proy, red)
            causa == IF mal THEN "ValueError"
                     ELSE IF urbano
                     THEN (IF estatico = "ok" THEN "none" ELSE estatico)
                     ELSE m.exc
        IN  /\ urbano \/ faltan \/ mal => proy = "ok" /\ red = "ok"
            /\ ~urbano \/ faltan \/ mal => estatico = "ok"
            /\ ~urbano /\ ~faltan /\ ~mal => proy \in Proyecciones(lon, lat)
            /\ proy # "ok" => red = "ok"
            /\ pyplot' = IF urbano \/ faltan \/ mal THEN pyplot ELSE m.py
            /\ Len(pyplot'.figs) <= MaxFiguras
            /\ aviso' = IF faltan
                        THEN Aviso("Faltan coordenadas para el mapa.", "none")
                        ELSE IF causa # "none"
                        THEN Aviso("Coordenadas invalidas para el mapa.", causa)
                        ELSE SinAviso
            /\ informe' = IF generar
                          THEN [plantilla |-> doc, hecho |-> TRUE,
                                mapa |-> ~faltan /\ causa = "none"]
                          ELSE informe
            /\ run' = Corrida(5, IF generar THEN "Generar Word" ELSE "", "none")
    /\ UNCHANGED <<step, data, doc, entrada, hilo, lookupVars, mayusVars>>

NextWizard == Paso1 \/ Paso2 \/ Paso3 \/ Paso4 \/ Paso5

InitSpecWizard == InitWizard /\ InitRender /\ LookupReposo /\ MayusReposo

SpecWizard == InitSpecWizard /\ [][NextWizard]_vars

----------------------------------------------------------------------------
(* Step 4 alone: the session arrives at step 4 with the data of steps 1-3, *)
(* the user has filled in the step-4 widgets, and the script runs          *)

TextosTemperatura ==
    {<<"2", "0">>, <<"2", ".", "5">>, <<"-", "1", "5">>, <<"1", "1", "2", ".", "5">>, <<"0">>, <<"1", "e", "1", "9">>, <<"i", "n", "f">>, <<"n", "a", "n">>, <<"a", "b", "c">>, <<"2", "2", ",", "5">>}

MedidasAVST == {499, 500, 2500}
MedidasAVSB == {500, 2000, 2499}
MedidasBVST == {0, 99, 100, 500}

\* the data after "Siguiente" was accepted at steps 1, 2 and 3
Llegada(trafo, aislamiento, temperatura) ==
    paso3(paso2(paso1(<<>>, Entrada1("", Urbano)),
                Entrada2("", trafo, aislamiento, <<"4", ",", "6">>)),
          Entrada3("", temperatura))

InitPaso4 ==
    /\ step = 4
    /\ \E tr \in {Trifasico, Monofasico}, ai \in {Aceite, Seco},
          te \in TextosTemperatura :
        /\ data = Llegada(tr, ai, te)
        /\ doc = template_path(data)
    /\ entrada \in {Entrada4(a, b, c, co) :
                        a \in MedidasAVST, b \in MedidasAVSB,
                        c \in MedidasBVST, co \in {Relleno, <<>>}}
    /\ run = Corrida(3, "Siguiente", "none")
    /\ aviso = SinAviso
    /\ informe = SinInforme

\* lines 210-255, the widgets holding entrada
Paso4Medido ==
    /\ step = 4
    /\ \E click \in {"", "Anterior", "Siguiente"} : Correr4(entrada, click)
    /\ UNCHANGED <<doc, entrada, informe, lookupVars, renderVars, mayusVars>>

NextPaso4 == Paso4Medido

InitSpecPaso4 == InitPaso4 /\ InitRender /\ LookupReposo /\ MayusReposo

SpecPaso4 == InitSpecPaso4 /\ [][NextPaso4]_vars

----------------------------------------------------------------------------
(* Calls of convertir_a_mayusculas                                         *)

\* lines 51-61: the first call on the value given, each later call on the
\* result of the call before
Convertir ==
    /\ veces_mayus < MaxVeces
    /\ ret_mayus' = convertir_a_mayusculas(
                        IF veces_mayus = 0 THEN arg_mayus ELSE ret_mayus)
    /\ veces_mayus' = veces_mayus + 1
    /\ UNCHANGED <<arg_mayus, lookupVars, renderVars, wizardVars>>

InitSpecMayusculas == InitMayusculas /\ InitRender /\ LookupReposo /\ InitWizard

SpecMayusculas == InitSpecMayusculas /\ [][Convertir]_vars

----------------------------------------------------------------------------
(* Specification of the lookup alone: the calls                            *)

\* one call: lines 82-95 bind the three lists, 98-103 select or raise,
\* 106-108 scan and return
Lookup ==
    /\ llamadas < MaxLlamadas
    /\ temperaturas' = range(-10, 115, 5)
    /\ valores_aceite' = lista_valores_aceite
    /\ valores_seco' = lista_valores_seco
    /\ \E a \in (IF llamadas = 0 THEN {lk_args} ELSE Rellamadas) :
        LET r == buscar(temperaturas', valores_aceite', valores_seco',
                        a.t, a.tipo)
        IN  /\ lk_args' = a
            /\ lk_ret' = r.ret
            /\ indice_cercano' = r.idx
            /\ llamadas' = llamadas + 1
    /\ UNCHANGED <<renderVars, wizardVars, mayusVars>>

NextLookup == Lookup

InitSpecLookup == InitLookup /\ InitRender /\ InitWizard /\ MayusReposo

SpecLookup == InitSpecLookup /\ [][NextLookup]_vars

----------------------------------------------------------------------------
(* Properties of the lookup                                                *)

lk_hecho == llamadas > 0

EsAceite(tipo) == upper(tipo) = upper(ACEITE)
EsSeco(tipo) == upper(tipo) = upper(SECO)

\* the factor list a valid kind reads
ListaDe(tipo) == IF EsAceite(tipo) THEN lista_valores_aceite ELSE lista_valores_seco

\* the 25 sample points, by 0-based position
Muestra(j) == 5 * j - 10

\* C1: a call with a temperature that is one of the 25 sample points and
\* kind "Aceite" or "Seco" returns the factor stored at that point's index.
C1_SamplePointExact ==
    lk_hecho /\ lk_args.tipo \in {Aceite, Seco} /\ lk_args.t.k = "fin" =>
        \A j \in 0..24 :
            lk_args.t.v = 10 * Muestra(j) =>
                lk_ret = Devuelve(ListaDe(lk_args.tipo)[j + 1])

C1_Witness ==
    /\ lk_hecho
    /\ lk_args = [t |-> Fin(200), tipo |-> Seco]
    /\ lk_ret = Devuelve(1000)

\* C2: a call with the exact midpoint of two consecutive sample points and
\* a valid kind returns the factor at the lower of the two indices.
C2_MidpointLower ==
    lk_hecho /\ (EsAceite(lk_args.tipo) \/ EsSeco(lk_args.tipo))
             /\ lk_args.t.k = "fin" =>
        \A j \in 0..23 :
            lk_args.t.v = 10 * Muestra(j) + 25 =>
                /\ lk_ret = Devuelve(ListaDe(lk_args.tipo)[j + 1])
                /\ lk_ret # Devuelve(ListaDe(lk_args.tipo)[j + 2])

C2_Witness ==
    /\ lk_hecho
    /\ lk_args = [t |-> Fin(25), tipo |-> Aceite]
    /\ lk_ret = Devuelve(250)

Debajo(t) == (t.k = "fin" /\ t.v < -100) \/ (t.k \in {"huge", "inf"} /\ t.v = -1)
Encima(t) == (t.k = "fin" /\ t.v > 1100) \/ (t.k \in {"huge", "inf"} /\ t.v = 1)

\* C3: a call with a temperature below -10 returns the factor stored for
\* -10 and a call with a temperature above 110 the factor stored for 110,
\* for each valid kind.
C3_Clamp ==
    lk_hecho /\ (EsAceite(lk_args.tipo) \/ EsSeco(lk_args.tipo)) =>
        /\ Debajo(lk_args.t) => lk_ret = Devuelve(ListaDe(lk_args.tipo)[1])
        /\ Encima(lk_args.t) => lk_ret = Devuelve(ListaDe(lk_args.tipo)[25])

\* C4: a call whose kind is neither "aceite" nor "seco" once lower-cased
\* fails with ValueError, whatever the temperature, and returns no factor.
C4_InvalidKindRaises ==
    lk_hecho /\ ~EsAceite(lk_args.tipo) /\ ~EsSeco(lk_args.tipo) =>
        /\ lk_ret = ValueError
        /\ lk_ret.err = "ValueError"
        /\ indice_cercano = 0

C4_Witness ==
    /\ lk_hecho
    /\ lk_args = [t |-> Inf(1), tipo |-> NA]
    /\ lk_ret = ValueError

\* C5: the result of a call is the result of the same call with the kind
\* spelled in capitals; so any two spellings of a kind that differ only in
\* letter case (they have the same spelling in capitals) give the same
\* result.
C5_CaseInsensitive ==
    lk_hecho =>
        obtener_valor_por_temperatura(lk_args.t, upper(lk_args.tipo)) = lk_ret

C5_Witness ==
    /\ lk_hecho
    /\ lk_args = [t |-> Fin(25), tipo |-> Aceite]
    /\ lk_ret = Devuelve(250)
    /\ obtener_valor_por_temperatura(Fin(25), upper(ACEITE)) = lk_ret

\* C9: in every state the temperature list is the 25 points -10, -5, ...,
\* 110 in strictly increasing order, both factor lists have 25 entries and
\* are the tabulated ones, and every index the scan selects is an index of
\* both factor lists.
C9_TableWellFormed ==
    /\ temperaturas = [i \in 1..25 |-> 5 * i - 15]
    /\ \A i \in 1..(Len(temperaturas) - 1) : temperaturas[i] < temperaturas[i + 1]
    /\ Len(valores_aceite) = 25
    /\ Len(valores_seco) = 25
    /\ valores_aceite = lista_valores_aceite
    /\ valores_seco = lista_valores_seco
    /\ indice_cercano \in 0..25
    /\ lk_ret.err = "none" =>
            indice_cercano \in DOMAIN valores_aceite \cap DOMAIN valores_seco
    /\ DOMAIN temperaturas = DOMAIN valores_aceite
    /\ DOMAIN temperaturas = DOMAIN valores_seco

C9_Witness ==
    /\ llamadas = MaxLlamadas
    /\ lk_ret = ValueError
    /\ lk_args.tipo = NA

----------------------------------------------------------------------------
(* Properties of concurrent calls and of a failed render                   *)

\* C7: every call that ends returns what it returns when run alone: a
\* render that did not fail returns the PNG of the figure it made itself,
\* with the basemap, the marker and the tight layout of its own point, and
\* a lookup returns the factor of its own arguments.
C7_LlamadasIndependientes ==
    \A s \in Sesiones :
        hilo[s].pc = "fin" =>
            /\ hilo[s].op = "render" /\ hilo[s].imagen =>
                  /\ hilo[s].guardada = hilo[s].fig
                  /\ hilo[s].bytes = ImagenSolo(Punto(hilo[s].lon, hilo[s].lat))
            /\ hilo[s].op = "lookup" =>
                  hilo[s].valor =
                      obtener_valor_por_temperatura(hilo[s].t, hilo[s].tipo)

FalloRender(h) == h.op = "render" /\ h.llamada /\ h.exc # "none"

\* C8 as stated: a render that failed has made exactly one fetch, has
\* returned no bytes, and ended with one error shown by the caller.
C8_UnIntentoExacto ==
    \A s \in Sesiones :
        FalloRender(hilo[s]) /\ hilo[s].pc = "fin" =>
            /\ hilo[s].intentos = 1
            /\ hilo[s].bytes = SinBytes /\ ~hilo[s].imagen
            /\ hilo[s].aviso =
                  Aviso("Coordenadas invalidas para el mapa.", hilo[s].exc)

\* C8 amended: a render that failed has made at most one fetch: one when
\* the fetch itself failed, none when the reprojection or the axis limits
\* failed before it.  It is never resumed or retried, returns no bytes,
\* and ends with one error that quotes the cause, shown by the caller.
C8_SinReintento ==
    \A s \in Sesiones :
        FalloRender(hilo[s]) =>
            /\ hilo[s].intentos =
                  (IF hilo[s].exc \in {"ConnectionError", "HTTPError"} THEN 1 ELSE 0)
            /\ hilo[s].pc \in {"except", "fin"}
            /\ hilo[s].bytes = SinBytes /\ ~hilo[s].imagen
            /\ hilo[s].pc = "fin" =>
                  hilo[s].aviso =
                      Aviso("Coordenadas invalidas para el mapa.", hilo[s].exc)

C8_Witness ==
    \E s \in Sesiones :
        /\ FalloRender(hilo[s]) /\ hilo[s].pc = "fin"
        /\ hilo[s].exc = "HTTPError" /\ hilo[s].intentos = 1
        /\ hilo[s].aviso = Aviso("Coordenadas invalidas para el mapa.", "HTTPError")

----------------------------------------------------------------------------
(* Step 4 and the navigation                                               *)

\* the pairs measured in step 4: all three with three phases, and without
\* the high-vs-ground pair otherwise
ParesMedidos(d) ==
    IF d["carTrafo_NroFases"] = Ent(3) THEN {"AVST", "AVSB", "BVST"}
    ELSE {"AVSB", "BVST"}

Campo(d, prefijo, par) ==
    CASE par = "AVST" -> d[prefijo \o "AVST"]
      [] par = "AVSB" -> d[prefijo \o "AVSB"]
      [] par = "BVST" -> d[prefijo \o "BVST"]

\* the threshold of a pair for an insulation kind
Umbral(par, aislamiento) ==
    CASE par \in {"AVST", "AVSB"} /\ aislamiento = Aceite -> 5
      [] par \in {"AVST", "AVSB"} /\ aislamiento = Seco   -> 25
      [] par = "BVST" /\ aislamiento = Aceite              -> 1
      [] par = "BVST" /\ aislamiento = Seco                -> 5

paso4_completo == run.paso = 4 /\ run.exc = "none"

\* C6: after a run of step 4, for every measured pair the referred
\* resistance is the measured resistance times the factor looked up for
\* the test temperature and the insulation kind, and the pair's label is
\* "Cumple" exactly when the referred resistance is at least the threshold
\* (5 oil / 25 dry for AVST and AVSB, 1 oil / 5 dry for BVST) and
\* "No Cumple" otherwise.
C6_ReferidaYResultado ==
    paso4_completo =>
        LET f == obtener_valor_por_temperatura(temperatura_de(data),
                                               aislamiento_de(data))
        IN  \A par \in ParesMedidos(data) :
                LET ref == Campo(data, "resReferida_", par)
                    med == Campo(data, "resMedida_", par)
                    res == Campo(data, "resultado_", par)
                    u == Umbral(par, aislamiento_de(data)) * 100000
                IN  /\ ref = Flo(med.n * f.val)
                    /\ res \in {Str(Cumple), Str(NoCumple)}
                    /\ res = Str(Cumple) <=> ref.n >= u

\* a three-phase run where a referred resistance is exactly its threshold
\* and another pair is below its own
C6_Witness ==
    /\ paso4_completo
    /\ data["carTrafo_NroFases"] = Ent(3)
    /\ data["resReferida_AVST"] = Flo(5 * 100000)
    /\ data["resultado_AVST"] = Str(Cumple)
    /\ data["resultado_BVST"] = Str(NoCumple)

\* some value collected in d is None or the empty string
Incompleto(d) == \E k \in DOMAIN d : d[k] = None \/ d[k] = Str(<<>>)

\* the run that made this transition clicked the button named
Clic(boton) == run'.click = boton /\ run'.exc = "none"

C10_Pasos ==
    /\ step' # step =>
        \/ step' = step + 1 /\ Clic("Siguiente") /\ ~Incompleto(data')
        \/ step' = step - 1 /\ Clic("Anterior") /\ step > 1
    /\ Clic("Siguiente") /\ Incompleto(data') =>
        step' = step /\ aviso' # SinAviso

\* C10: the step changes only by a "Siguiente" that adds 1, and only when
\* no collected value is None or empty (otherwise the step stays and an
\* error is shown), or by an "Anterior" that subtracts 1, and only when
\* the step is above 1; so the step is always within 1..5.
C10_StepNavigation == [](step \in 1..5) /\ [][C10_Pasos]_vars

\* a "Siguiente" was refused at step 4, after three were accepted
C10_Witness ==
    /\ step = 4
    /\ run = Corrida(4, "Siguiente", "none")
    /\ aviso = Aviso(PorFavorCompleta, "none")

----------------------------------------------------------------------------
(* The template of the session                                             *)

Plantilla3FS == "templates/templateTRAFO3FS.docx"
Plantilla1FS == "templates/templateTRAFO1FS.docx"

\* C11: whenever the wizard is at step 3 or later, a document template is
\* loaded in the session and it is the one of the transformer type stored
\* in the data: the three-phase template exactly when tipoTransformador
\* is "Trifásico", otherwise the single-phase template.
C11_PlantillaCorrespondiente ==
    step >= 3 =>
        /\ doc \in {Plantilla3FS, Plantilla1FS}
        /\ doc = Plantilla3FS <=> data["tipoTransformador"] = Str(Trifasico)

\* step 3 was reached again with the three-phase template after step 4
\* had run for one phase: the user went back to step 2, changed the type
\* and advanced
C11_Witness ==
    /\ step = 3
    /\ run = Corrida(2, "Siguiente", "none")
    /\ doc = Plantilla3FS
    /\ data["tipoTransformador"] = Str(Trifasico)
    /\ "resMedida_AVST" \in DOMAIN data
    /\ data["resMedida_AVST"] = Str(Guion)

----------------------------------------------------------------------------
(* Step 4 with one phase                                                   *)

\* C12: after a run of step 4 for a single-phase transformer, the
\* high-vs-ground pair is measured '-', referred '-' and labelled
\* "Cumple", whatever the test temperature, the insulation kind and the
\* other readings are; its label is never "No Cumple".
C12_MonofasicoCumple ==
    run.paso = 4 /\ data["carTrafo_NroFases"] = Ent(1) =>
        /\ data["resMedida_AVST"] = Str(Guion)
        /\ data["resReferida_AVST"] = Str(Guion)
        /\ "resultado_AVST" \in DOMAIN data
        /\ data["resultado_AVST"] = Str(Cumple)

----------------------------------------------------------------------------
(* convertir_a_mayusculas                                                  *)

\* r has the shape of v, its text is the text of v in upper case, and its
\* other leaves are those of v
RECURSIVE EnMayusculas(_, _)
EnMayusculas(v, r) ==
    CASE v.t = "str" -> r.t = "str" /\ r.s = upper(v.s)
      [] v.t \in {"list", "tuple"} ->
            /\ r.t = v.t
            /\ Len(r.items) = Len(v.items)
            /\ \A i \in DOMAIN v.items : EnMayusculas(v.items[i], r.items[i])
      [] v.t = "dict" ->
            /\ r.t = "dict"
            /\ Len(r.items) = Len(v.items)
            /\ \A i \in DOMAIN v.items :
                  /\ r.items[i][1] = v.items[i][1]
                  /\ EnMayusculas(v.items[i][2], r.items[i][2])
      [] OTHER -> r = v

\* C13: convertir_a_mayusculas returns a value of the same shape (same
\* keys, same lengths and order) in which every text at any depth is in
\* upper case and every other leaf is unchanged, and applying it again
\* to its result changes nothing.
C13_MayusculasForma ==
    veces_mayus >= 1 => EnMayusculas(arg_mayus, ret_mayus)

\* the second call on a dict that holds a tuple of two items, the first
\* of them text that the first call changed
C13_Witness ==
    /\ veces_mayus = 2
    /\ arg_mayus.t = "dict"
    /\ \E i \in DOMAIN arg_mayus.items :
          LET x == arg_mayus.items[i][2] IN
          /\ x.t = "tuple" /\ Len(x.items) = 2
          /\ x.items[1].t = "str"
          /\ ret_mayus.items[i][2].items[1] # x.items[1]

====
